---- MODULE Spec2Model ----
(***************************************************************************)
(* Model of src/meat_tracker.py: a Streamlit script that loads a per-user  *)
(* CSV log from a drive store, lets the user upsert one (date, count) row  *)
(* through a Save button, and on every run recomputes streaks, meat-free   *)
(* calendar weeks and achievement badges; the archived badges live in the  *)
(* Streamlit session state and survive from one run to the next.           *)
(*                                                                         *)
(* Dates are day offsets from start_date (2025-02-10, a Monday): day 0 is  *)
(* start_date, negative days lie before it.  pandas NaN is the value NaN   *)
(* below: like NaN it is neither == 0 nor > 0.  Achievement labels are     *)
(* records: [kind |-> "week", n |-> 2] is "2-week meat-free streak" and    *)
(* [kind |-> "day", n |-> 10] is "10-day streak".                          *)
(*                                                                         *)
(* Lines 82-99 of the script (bulk add) follow st.rerun() inside the Save  *)
(* branch and are never executed.  Line 284, a section title, lacks its    *)
(* comment sign, so the file as it stands is rejected by the Python        *)
(* compiler: every run of it ends in an IndentationError before its first  *)
(* statement (ScriptFails).  The variable compiled tells the two scripts   *)
(* apart: FALSE is the file as shipped, TRUE the file with line 284 read   *)
(* as the comment it is, whose runs are the actions Render and Save.  The  *)
(* model covers lines 25-214 for a session whose username is entered:      *)
(* load, Save, streaks, weeks and achievements.  A run reads the clock     *)
(* twice, at line 107 for the last day of the series and at line 116 for   *)
(* today; midnight can fall between the two reads.                         *)
(*                                                                         *)
(* Each action is one run of the script.  A Save run ends at st.rerun()    *)
(* (line 80) before the streak block; the run it asks for is a Render,     *)
(* and another button press or midnight can come before it.                *)
(***************************************************************************)
EXTENDS Integers, Sequences, FiniteSets, TLC

VARIABLES
    store,      \* the user's CSV file in the drive, or NoFile
    today,      \* the current calendar day (datetime.today())
    nights,     \* the midnights passed since the session started
    archived,   \* st.session_state.archived_achievements
    df,         \* the script variable df at the end of the last run
    view,       \* what the last run's streak/achievement block produced
    last,       \* trace of the last run: which handler ran, with what
    rerun,      \* st.rerun() was called and the run it asks for is due
    compiled    \* Python accepts the script (line 284 read as a comment)

vars == <<store, today, nights, archived, df, view, last, rerun, compiled>>

----------------------------------------------------------------------------
(* Bounds of the model *)

MaxCount == 1       \* counts entered or stored are 0..MaxCount
FirstToday == 13    \* the session starts on this day
Horizon == 1        \* the session lasts at most this many further days
MaxFree == 6        \* SpecSeries: days of the series chosen freely
MaxRows == 3        \* SpecSave: rows of the loaded log
MaxRowDay == 1      \* SpecSave: dates of the loaded log are 0..MaxRowDay

(* Program constants *)

StartDay == 0       \* start_date = 2025-02-10, the origin of the day offsets
StartWeekday == 0   \* 2025-02-10 is a Monday (ISO weekday 1, offset 0)
FullWeekLen == 7    \* len(week) == 7
UnloggedFill == 999 \* df_grouped.fillna(999)
NaN == -1           \* reindex() leaves NaN on days without a row

----------------------------------------------------------------------------
(* Helpers on sequences (Python lists, DataFrame rows) *)

Range(s) == {s[i] : i \in DOMAIN s}

Max2(a, b) == IF a >= b THEN a ELSE b

MaxOf(S) == CHOOSE x \in S : \A y \in S : y <= x

RECURSIVE RemoveFirst(_, _)
\* list.remove(x): drops the first occurrence of x
RemoveFirst(s, x) ==
    IF s = <<>> THEN <<>>
    ELSE IF Head(s) = x THEN Tail(s)
    ELSE <<Head(s)>> \o RemoveFirst(Tail(s), x)

\* list(set(s)): a list holding each distinct label of s once.  Its order
\* is that of the hash table, which changes with the process's hash seed and
\* the labels held: any order can come out, so this is the set of the lists
\* the call can return.
ListOfSet(s) ==
    LET labels == Range(s)
    IN  {l \in [1..Cardinality(labels) -> labels] : Range(l) = labels}

----------------------------------------------------------------------------
(* The store and load_data / save_data *)

NoFile == [exists |-> FALSE]

NewColumns == {"date", "count"}

LegacyColumns == {"date"}

File(cols, rows) == [exists |-> TRUE, cols |-> cols, rows |-> rows]

Row(d, c) == [date |-> d, count |-> c]

\* load_data: no file gives an empty frame; a file without a count column
\* is upgraded to one event per row
load_data(f) ==
    IF ~f.exists THEN <<>>
    ELSE IF "count" \in f.cols THEN f.rows
    ELSE [i \in DOMAIN f.rows |-> Row(f.rows[i].date, 1)]

\* save_data: the whole frame replaces the file's content (or a new file is
\* created), always with both columns
save_data(frame) == File(NewColumns, frame)

\* A bug the Save handler could have: the new row is appended and the prior
\* rows for the date are kept
UpsertAppendOnly(frame, d, c) == frame \o <<Row(d, c)>>

\* Save handler, lines 66-76: rows for the selected date are dropped, then
\* one row (d, c) is appended, for c > 0 and for c = 0 alike
Upsert(frame, d, c) ==
    LET kept == SelectSeq(frame, LAMBDA r : r.date # d)
    IN  IF c > 0 THEN kept \o <<Row(d, c)>>
        ELSE IF c = 0 THEN kept \o <<Row(d, 0)>>
        ELSE kept

----------------------------------------------------------------------------
(* The dense daily series *)

RECURSIVE SumCounts(_, _)
SumCounts(frame, d) ==
    IF frame = <<>> THEN 0
    ELSE (IF Head(frame).date = d THEN Head(frame).count ELSE 0)
         + SumCounts(Tail(frame), d)

\* df.groupby('date')['count'].sum().reindex(all_dates): the sum of the
\* counts of a day's rows, NaN for a day without a row; rows outside
\* start_date..today are dropped
Grouped(frame, t) ==
    [d \in StartDay..t |->
        IF \E i \in DOMAIN frame : frame[i].date = d
        THEN SumCounts(frame, d) ELSE NaN]

\* df_zero_filled = df_grouped.fillna(999)
ZeroFilled(g) == [d \in DOMAIN g |-> IF g[d] = NaN THEN UnloggedFill ELSE g[d]]

----------------------------------------------------------------------------
(* Streaks, lines 123-130 *)

\* A bug: longest updated before the counter is incremented
StreakStepLate(val, st) ==
    IF val = 0
    THEN [current |-> st.current + 1,
          longest |-> Max2(st.longest, st.current)]
    ELSE [current |-> 0, longest |-> st.longest]

\* One iteration of the loop over df_grouped.values
StreakStep(val, st) ==
    IF val = 0
    THEN [current |-> st.current + 1,
          longest |-> Max2(st.longest, st.current + 1)]
    ELSE [current |-> 0, longest |-> st.longest]

RECURSIVE StreakLoop(_, _, _)
StreakLoop(g, d, st) ==
    IF d \notin DOMAIN g THEN st
    ELSE StreakLoop(g, d + 1, StreakStep(g[d], st))

Streaks(g) == StreakLoop(g, StartDay, [current |-> 0, longest |-> 0])

----------------------------------------------------------------------------
(* Meat-free calendar weeks, lines 154-159 *)

\* The ISO (year, week) of a day, as the number of the Monday-Sunday week
\* counted from the week of start_date
IsoWeek(d) == (d + StartWeekday) \div 7

\* The groups of groupby([iso year, iso week]): for each week, its days
CalendarWeeks(g) ==
    {{d \in DOMAIN g : IsoWeek(d) = w} : w \in {IsoWeek(d) : d \in DOMAIN g}}

MeatFreeWeeks(g) ==
    LET filled == ZeroFilled(g)
    IN  Cardinality({week \in CalendarWeeks(g) :
            /\ Cardinality(week) = FullWeekLen
            /\ \A d \in week : filled[d] = 0})

----------------------------------------------------------------------------
(* Achievements, lines 139-214 *)

WeekLabel(n) == [kind |-> "week", n |-> n]

DayLabel(n) == [kind |-> "day", n |-> n]

\* streak_achievements, in the dictionary's order
StreakThresholds == <<10, 20, 30, 40, 50, 60, 70>>

\* "week meat-free streak" in ach
HasWeekText(ach) == ach.kind = "week"

\* A bug: older week badges left in the archived list
KeepOlderWeeks(session, name) == session

\* Lines 173-183: every archived week badge other than the current one is
\* removed (by remove() for each, then once more by the comprehension)
DropOlderWeeks(session, name) ==
    SelectSeq(session, LAMBDA ach : ~HasWeekText(ach) \/ ach = name)

\* Lines 166-185: the single week badge, appended to the empty active list
WeekActive(weeks) == IF weeks > 0 THEN <<WeekLabel(weeks)>> ELSE <<>>

\* Lines 188-190: one badge per threshold met by the longest streak
StreakActive(longest) ==
    LET met == SelectSeq(StreakThresholds, LAMBDA day : longest >= day)
    IN  [i \in DOMAIN met |-> DayLabel(met[i])]

\* A bug: meat on any day of the series counted as meat today
MeatAnyDay(g, t) == {d \in DOMAIN g : g[d] > 0} # {}

\* Line 193: df_grouped[df_grouped > 0].index.max() == today; max() of no
\* day is NaT, which equals no day
MeatToday(g, t) ==
    LET eaten == {d \in DOMAIN g : g[d] > 0}
    IN  eaten # {} /\ MaxOf(eaten) = t

\* A bug: archived + active without the set()
ArchiveAllNoSet(session, active) == {session \o active}

\* Line 195: list(set(archived + active)), the lists it can yield
ArchiveAll(session, active) == ListOfSet(session \o active)

\* A bug: the archived list left as it is
ReactivateNothing(session, active) == session

RECURSIVE ReactivateLoop(_, _, _)
ReactivateLoop(copy, session, active) ==
    IF copy = <<>> THEN session
    ELSE ReactivateLoop(Tail(copy),
            IF Head(copy) \in Range(active)
            THEN RemoveFirst(session, Head(copy)) ELSE session,
            active)

\* Lines 206-208: each label of a copy of the archived list that is active
\* again is removed from the archived list
Reactivate(session, active) == ReactivateLoop(session, session, active)

NoView == [rendered |-> FALSE]

\* Lines 102-214 for a non-empty frame: the locals the page shows, and the
\* session's archived list as the block leaves it; one outcome for each
\* order line 195 can yield.  end is the day read at line 107, the last day
\* of the series; t is the day read at line 116, compared at line 193
RenderBlock(frame, end, t, session) ==
    LET g == Grouped(frame, end)
        st == Streaks(g)
        weeks == MeatFreeWeeks(g)
        session1 == IF weeks > 0
                    THEN DropOlderWeeks(session, WeekLabel(weeks))
                    ELSE session
        active == WeekActive(weeks) \o StreakActive(st.longest)
        meat == MeatToday(g, t)
        sessions2 == IF meat THEN ArchiveAll(session1, active)
                     ELSE {Reactivate(session1, active)}
        active2 == IF meat THEN <<>> ELSE active
    IN  {[session |-> session2,
          view |-> [rendered |-> TRUE,
                    series_end |-> end,
                    today |-> t,
                    prior |-> session,
                    current_streak |-> st.current,
                    longest_streak |-> st.longest,
                    meat_free_weeks |-> weeks,
                    active_achievements |-> active2,
                    archived_achievements |->
                        SelectSeq(session2,
                                  LAMBDA ach : ach \notin Range(active2)),
                    negative_message |-> meat]] : session2 \in sessions2}

\* Line 102: the block is skipped for an empty frame
RunBlock(frame, end, t, session) ==
    IF frame # <<>> THEN RenderBlock(frame, end, t, session)
    ELSE {[session |-> session, view |-> NoView]}

----------------------------------------------------------------------------
(* The session: one action per script run *)

Counts == 0..MaxCount

\* date_input accepts any date; the handler uses the date only to drop the
\* rows equal to it and to append one.  The dates picked in a session here
\* are yesterday and today; rows of other dates, before start_date and
\* after today included, come with the files of InitFiles
SaveDates == {today - 1, today}

\* The days the clock can show at the second read of a run that began on
\* day t: the same day, or the next when midnight falls inside the run
SecondRead(t) == {t} \cup (IF nights < Horizon THEN {t + 1} ELSE {})

\* A run with no button pressed (a widget touched, the page opened, or the
\* run st.rerun() asked for): load, then the block, which reads the clock at
\* line 107 and again at line 116
Render ==
    LET frame == load_data(store)
    IN  \E t \in SecondRead(today) :
        \E out \in RunBlock(frame, today, t, archived) :
            /\ compiled
            /\ df' = frame
            /\ archived' = out.session
            /\ view' = out.view
            /\ last' = [op |-> "render"]
            /\ rerun' = FALSE
            /\ today' = t
            /\ nights' = nights + (t - today)
            /\ UNCHANGED <<store, compiled>>

\* A run with Save pressed and the upload succeeding, lines 59-80: upsert,
\* save_data, the success message, then st.rerun(), which ends the run
\* before the block; the run it asks for is a later run of the script
SaveDone(d, c) ==
    LET loaded == load_data(store)
        written == Upsert(loaded, d, c)
    IN  /\ compiled
        /\ store' = save_data(written)
        /\ df' = written
        /\ view' = NoView
        /\ last' = [op |-> "save", date |-> d, count |-> c, loaded |-> loaded,
                    written |-> written, uploads |-> 1, ok |-> TRUE,
                    success |-> TRUE]
        /\ rerun' = TRUE
        /\ UNCHANGED <<today, nights, archived, compiled>>

\* A run with Save pressed and save_data raising: the script stops at line
\* 78 with df already rebound to the upserted frame; no message, no rerun,
\* no block
SaveFailed(d, c) ==
    LET loaded == load_data(store)
        written == Upsert(loaded, d, c)
    IN  /\ compiled
        /\ df' = written
        /\ view' = NoView
        /\ last' = [op |-> "save", date |-> d, count |-> c, loaded |-> loaded,
                    written |-> written, uploads |-> 1, ok |-> FALSE,
                    success |-> FALSE]
        /\ rerun' = FALSE
        /\ UNCHANGED <<store, today, nights, archived, compiled>>

Save == \E d \in SaveDates, c \in Counts : SaveDone(d, c)

SaveFails == \E d \in SaveDates, c \in Counts : SaveFailed(d, c)

\* A run of the script as shipped: the compiler stops at line 284, no
\* statement is executed, nothing is loaded, saved or rendered
ScriptFails ==
    /\ ~compiled
    /\ view' = NoView
    /\ last' = [op |-> "indentation_error"]
    /\ rerun' = FALSE
    /\ UNCHANGED <<store, today, nights, archived, df, compiled>>

\* Midnight passes
NextDay ==
    /\ nights < Horizon
    /\ today' = today + 1
    /\ nights' = nights + 1
    /\ UNCHANGED <<store, archived, df, view, last, rerun, compiled>>

ZeroRows(from, to) == [i \in 1..(to - from + 1) |-> Row(from + i - 1, 0)]

\* The files a session may find in the drive when it starts
InitFiles ==
    {NoFile,
     File(NewColumns, <<>>),
     File(NewColumns, ZeroRows(StartDay, FirstToday - 1)),
     File(NewColumns, ZeroRows(StartDay + 1, FirstToday - 1)),
     File(NewColumns, <<Row(StartDay - 1, 1)>>
                      \o ZeroRows(StartDay, FirstToday - 1)
                      \o <<Row(FirstToday + Horizon + 1, 1)>>),
     File(NewColumns, ZeroRows(StartDay, FirstToday)
                      \o <<Row(FirstToday + 1, 1)>>),
     File(LegacyColumns, <<[date |-> FirstToday - 1], [date |-> FirstToday],
                           [date |-> FirstToday]>>)}

\* A new session: no archived_achievements key yet, which the first block
\* creates as the empty list (lines 119-120); no run has happened
Init ==
    /\ store \in InitFiles
    /\ today = FirstToday
    /\ archived = <<>>
    /\ df = <<>>
    /\ view = NoView
    /\ last = [op |-> "none"]
    /\ rerun = FALSE
    /\ compiled \in BOOLEAN
    /\ nights = 0

Next == ScriptFails \/ Render \/ Save \/ SaveFails \/ NextDay

Spec == Init /\ [][Next]_vars

----------------------------------------------------------------------------
(* SpecSeries: a render over every daily series of a bounded family.  The  *)
(* file holds one row per logged day: an optional first week of logged     *)
(* zeros, then up to MaxFree days each unlogged or logged with any count.  *)

DayValues == {NaN} \cup Counts

RECURSIVE SeriesRows(_, _, _)
\* The rows, in date order, of the days from..from+Len(f)-1 valued by f
SeriesRows(f, i, from) ==
    IF i > Len(f) THEN <<>>
    ELSE (IF f[i] = NaN THEN <<>> ELSE <<Row(from + i - 1, f[i])>>)
         \o SeriesRows(f, i + 1, from)

InitSeries ==
    \E p \in {0, FullWeekLen}, n \in 0..MaxFree :
        \E f \in [1..n -> DayValues] :
            /\ p + n >= 1
            /\ today = StartDay + p + n - 1
            /\ store = File(NewColumns,
                            ZeroRows(StartDay, StartDay + p - 1)
                            \o SeriesRows(f, 1, StartDay + p))
            /\ archived = <<>>
            /\ df = <<>>
            /\ view = NoView
            /\ last = [op |-> "none"]
            /\ rerun = FALSE
            /\ compiled \in BOOLEAN
            /\ nights = 0

NextSeries == ScriptFails \/ Render

SpecSeries == InitSeries /\ [][NextSeries]_vars

----------------------------------------------------------------------------
(* SpecSave: the Save handler over every small log, duplicates included *)

RowValues == {Row(d, c) : d \in StartDay..(StartDay + MaxRowDay), c \in Counts}

SmallFrames == UNION {[1..k -> RowValues] : k \in 0..MaxRows}

InitSave ==
    /\ store \in {NoFile} \cup {File(NewColumns, rows) : rows \in SmallFrames}
    /\ today = StartDay + 1
    /\ archived = <<>>
    /\ df = <<>>
    /\ view = NoView
    /\ last = [op |-> "none"]
    /\ rerun = FALSE
    /\ compiled \in BOOLEAN
    /\ nights = 0

NextSave == ScriptFails \/ Save \/ SaveFails

SpecSave == InitSave /\ [][NextSave]_vars

----------------------------------------------------------------------------
(* Vocabulary of the properties *)

\* The dense series the last executed block worked on: start_date to the
\* day read at line 107
Shown == Grouped(df, view.series_end)

\* The log holds a count > 0 for day d
MeatLoggedFor(d) == \E i \in DOMAIN df : df[i].date = d /\ SumCounts(df, d) > 0

\* The most recent day of the series with a logged count > 0 is the day the
\* block took for today
LatestMeatIsToday ==
    LET eaten == {d \in DOMAIN Shown : Shown[d] > 0}
    IN  view.today \in eaten /\ \A d \in eaten : d <= view.today

ShownStreaks ==
    [current |-> view.current_streak, longest |-> view.longest_streak]

Unlogged(g, d) == g[d] = NaN

LoggedZero(g, d) == g[d] = 0

MeatEaten(g, d) == g[d] > 0

\* Days a..b of the series are all logged with count 0
ZeroRun(g, a, b) == \A d \in a..b : d \in DOMAIN g /\ LoggedZero(g, d)

\* The streak still open at the last day t of the series
OpenRun(g, t) == MaxOf({0} \cup {t - a + 1 : a \in {x \in DOMAIN g : ZeroRun(g, x, t)}})

IsMonday(d) == (d + StartWeekday) % 7 = 0

\* The Mondays whose whole Monday-Sunday week lies in the series
FullWeeks(g) == {m \in DOMAIN g : IsMonday(m) /\ (m + 6) \in DOMAIN g}

\* The labels the block computes as active before it looks at today
Earned ==
    (IF view.meat_free_weeks > 0 THEN {WeekLabel(view.meat_free_weeks)} ELSE {})
    \cup {DayLabel(n) : n \in {x \in {10, 20, 30, 40, 50, 60, 70} :
                                 view.longest_streak >= x}}

WeekBadges(labels) == {a \in labels : a.kind = "week"}

Occurrences(s, x) == Cardinality({i \in DOMAIN s : s[i] = x})

NoDup(s) == \A i, j \in DOMAIN s : s[i] = s[j] => i = j

----------------------------------------------------------------------------
(* C1 *)

\* C1 as stated: an Unlogged day counts for both streaks exactly like a
\* Logged(0) day, so turning any Unlogged day into Logged(0), or any
\* Logged(0) day into Unlogged, changes neither streak.
C1_UnloggedCountsLikeZero ==
    view.rendered =>
        \A d \in DOMAIN Shown :
            /\ Unlogged(Shown, d) =>
                   Streaks([Shown EXCEPT ![d] = 0]) = ShownStreaks
            /\ LoggedZero(Shown, d) =>
                   Streaks([Shown EXCEPT ![d] = NaN]) = ShownStreaks

----------------------------------------------------------------------------
(* C2 *)

\* C2 as stated: the week count is the number of Monday-Sunday weeks with
\* all 7 days in the series and every day Logged(0) or Unlogged.
C2_WeeksCountUnlogged ==
    view.rendered =>
        view.meat_free_weeks =
            Cardinality({m \in FullWeeks(Shown) :
                \A d \in m..(m + 6) :
                    LoggedZero(Shown, d) \/ Unlogged(Shown, d)})

----------------------------------------------------------------------------
(* C8 *)

\* C8: the longest streak of a render is at least its current streak, and
\* at least the streak still open at the last day of the series (which the
\* current streak is), whether or not midnight fell inside the run.
C8_LongestCoversCurrent ==
    view.rendered =>
        /\ view.longest_streak >= view.current_streak
        /\ view.current_streak = OpenRun(Shown, view.series_end)
        /\ view.longest_streak >= OpenRun(Shown, view.series_end)

\* The streak open at the end of the series is the longest one, after an
\* earlier break
C8_Witness ==
    /\ view.rendered
    /\ view.current_streak >= 2
    /\ view.longest_streak = view.current_streak
    /\ \E d \in DOMAIN Shown : MeatEaten(Shown, d)

----------------------------------------------------------------------------
(* C3 *)

----------------------------------------------------------------------------
(* C4 *)

\* C4: after a render no label is both active and archived, for the
\* session's archived list and for the displayed one.
C4_ActiveArchivedDisjoint ==
    view.rendered =>
        /\ Range(view.active_achievements) \cap Range(archived) = {}
        /\ Range(view.active_achievements)
               \cap Range(view.archived_achievements) = {}

\* A render that left labels active and other labels archived, one of the
\* active ones having been archived before it
C4_Witness ==
    /\ view.rendered
    /\ view.active_achievements # <<>>
    /\ archived # <<>>
    /\ Range(view.active_achievements) \cap Range(view.prior) # {}

----------------------------------------------------------------------------
(* C5 *)

\* C5: in a render with no count > 0 in the log for today (the day read at
\* line 116, inside the series or one past its end), every label that was
\* archived and is earned again is out of the session's archived list and
\* in the active list.
C5_ReactivatedWhenNoMeatToday ==
    (view.rendered /\ ~MeatLoggedFor(view.today)) =>
        \A ach \in Range(view.prior) \cap Earned :
            /\ ach \notin Range(archived)
            /\ ach \in Range(view.active_achievements)

\* A render on a day after the setback, meat still in the series, that made
\* an archived label active again
C5_Witness ==
    /\ view.rendered
    /\ ~MeatLoggedFor(view.today)
    /\ \E d \in DOMAIN Shown : MeatEaten(Shown, d)
    /\ \E ach \in Range(view.prior) :
           /\ ach \in Range(view.active_achievements)
           /\ ach \notin Range(archived)

----------------------------------------------------------------------------
(* C6 *)

\* C6: when the week count of a render is n > 0, exactly one week badge is
\* emitted, labelled n (active once, or archived by a setback), and no week
\* badge of another count is left active or archived.
C6_SingleWeekBadge ==
    (view.rendered /\ view.meat_free_weeks > 0) =>
        LET badge == WeekLabel(view.meat_free_weeks)
        IN  /\ IF view.negative_message
               THEN Occurrences(archived, badge) = 1
               ELSE Occurrences(view.active_achievements, badge) = 1
            /\ WeekBadges(Range(view.active_achievements)
                          \cup Range(archived)
                          \cup Range(view.archived_achievements))
                   \subseteq {badge}

\* A render with two qualifying weeks whose session held the one-week badge
C6_Witness ==
    /\ view.rendered
    /\ view.meat_free_weeks = 2
    /\ WeekLabel(1) \in Range(view.prior)
    /\ WeekLabel(1) \notin Range(archived)

----------------------------------------------------------------------------
(* C7 *)

RowsOf(frame, d) == SelectSeq(frame, LAMBDA r : r.date = d)

RowsNotOf(frame, d) == SelectSeq(frame, LAMBDA r : r.date # d)

\* C7: after a Save of (d, c) the log, in the store and as the next run
\* loads it, holds exactly one row for d, with count c, and the rows of
\* every other date as they were, whatever rows for d there were before.
C7_SaveUpserts ==
    (last.op = "save" /\ last.ok) =>
        /\ store.exists
        /\ RowsOf(store.rows, last.date) = <<Row(last.date, last.count)>>
        /\ RowsNotOf(store.rows, last.date) = RowsNotOf(last.loaded, last.date)
        /\ df = store.rows

\* A Save on a date that had several rows, next to rows of another date
C7_Witness ==
    /\ last.op = "save"
    /\ last.ok
    /\ Len(RowsOf(last.loaded, last.date)) >= 2
    /\ RowsNotOf(last.loaded, last.date) # <<>>
    /\ Len(RowsOf(store.rows, last.date)) = 1

----------------------------------------------------------------------------
(* C9 *)

\* C9 as stated: a render of an empty log executes the block and shows
\* streaks 0 and empty achievement sets.
C9_EmptyLogRendered ==
    (last.op = "render" /\ df = <<>>) =>
        /\ view.rendered
        /\ view.current_streak = 0
        /\ view.longest_streak = 0
        /\ view.active_achievements = <<>>
        /\ view.archived_achievements = <<>>

----------------------------------------------------------------------------
(* C10 *)

\* C10 as stated: when the store write of a Save fails, no success message
\* is shown, the write is attempted once, the in-memory log is the one
\* loaded before the action, and the next run loads that same log.
C10_FailedSaveLeavesLog ==
    (last.op = "save" /\ ~last.ok) =>
        /\ ~last.success
        /\ last.uploads = 1
        /\ df = last.loaded
        /\ load_data(store) = last.loaded

============================================================================
